---- MODULE Spec2Model ----
(***************************************************************************)
(* Cart mutation and order placement of the shoe-app backend (src/app.py), *)
(* run by concurrent request threads, each with its own SQLAlchemy session *)
(* (autocommit=False, autoflush=False) on one SQLite database.             *)
(*                                                                         *)
(* The committed database is users / products / cart / orders.  A SELECT   *)
(* reads the committed rows and holds no lock afterwards; the first DML    *)
(* statement of a session takes the database write lock, which is held     *)
(* until COMMIT or ROLLBACK.  A handler whose only DML is sent by          *)
(* db.commit() (flush, then COMMIT) writes in one step.                    *)
(*                                                                         *)
(* Prices and totals are counted in units of 0.50 (10.00 is 20, 5.50 is    *)
(* 11), so that quantity * price is exact.                                 *)
(***************************************************************************)
EXTENDS Integers, FiniteSets, Sequences, TLC

\* ---------------------------------------------------------------- bounds
MaxCalls == 3      \* requests handled in one behaviour
MaxDelta == 2      \* |quantity| of a CartAdd request

Sessions == {"t1", "t2"}           \* request threads, one session each
ProductIds == {1, 2}               \* ids of the seeded products
CategoryIds == {1, 2}              \* ids of the seeded categories
Prices == {11, 20}
Deltas == (-MaxDelta)..MaxDelta
NULL == 0                          \* SQL NULL in an integer column; "no row"
NoLock == "free"                   \* no session holds the write lock

VARIABLES users, products, cart, orders, writeLock, pc, sess, result, calls,
          categories, productCategory

vars == <<users, products, cart, orders, writeLock, pc, sess, result, calls,
          categories, productCategory>>
\* categories: ids of the rows of the categories table; productCategory: the
\* category_id column of the products table (NULL or a category id)
catalog == <<categories, productCategory>>
store == <<users, products, cart, orders, catalog>>

\* ---------------------------------------------------------------- helpers
Max(S) == IF S = {} THEN 0 ELSE CHOOSE x \in S : \A y \in S : y <= x
Min(S) == CHOOSE x \in S : \A y \in S : x <= y

\* INTEGER PRIMARY KEY of a new row: the largest rowid in the table plus one.
NextRowId(rows) == Max({r.id : r \in rows}) + 1

RowIds(rows) == {r.id : r \in rows}

\* db.query(User).first()
get_mock_user(us) == Min(DOMAIN us)

check_admin_permission(us, uid) == us[uid]

\* db.query(Product).filter(Product.id == product_id).first() is not None
\* (variant: the lookup result is never tested)
ProductExistsMut(prods, p) == TRUE
ProductExists(prods, p) == p \in DOMAIN prods

\* Cart rows of one user
UserLines(c, uid) == {l \in c : l.user_id = uid}

\* Cart rows of one (user, product) pair
PairLines(c, uid, p) == {l \in c : l.user_id = uid /\ l.product_id = p}

\* db.query(Cart).filter(user_id, product_id).first(): the matching row of
\* lowest rowid, or NULL
FirstLine(c, uid, p) ==
    IF PairLines(c, uid, p) = {} THEN NULL
    ELSE CHOOSE l \in PairLines(c, uid, p) :
            \A m \in PairLines(c, uid, p) : l.id <= m.id

\* cart_item.quantity += quantity
NewQuantity(old, d) == old + d

\* if cart_item.quantity <= 0   (variant: < 0)
RemovesLineMut(q) == q < 0
RemovesLine(q) == q <= 0

\* if quantity <= 0 (no existing line)   (variant: < 0)
RejectsNewMut(d) == d < 0
RejectsNew(d) == d <= 0

\* Cart(user_id=user_id, product_id=product_id, quantity=quantity)
\* (variant: quantity left to the column default, 1)
NewCartItemMut(c, uid, p, d) ==
    [id |-> NextRowId(c), user_id |-> uid, product_id |-> p, quantity |-> 1]
NewCartItem(c, uid, p, d) ==
    [id |-> NextRowId(c), user_id |-> uid, product_id |-> p, quantity |-> d]

\* db.query(Cart, Product).join(Product).filter(Cart.user_id == user_id).all()
cart_data(c, prods, uid) == {l \in UserLines(c, uid) : l.product_id \in DOMAIN prods}

\* if not cart_data   (variant: the test is missing)
CartIsEmptyMut(data) == FALSE
CartIsEmpty(data) == data = {}

\* sum(cart_item.quantity * product.price for cart_item, product in cart_data)
RECURSIVE total_amount(_, _)
total_amount(data, prods) ==
    IF data = {} THEN 0
    ELSE LET l == CHOOSE x \in data : TRUE
         IN  l.quantity * prods[l.product_id] + total_amount(data \ {l}, prods)

\* Order(user_id=user_id, total_amount=total_amount, status="Processing")
\* (variant: status left to the column default, "Pending")
NewOrderMut(os, uid, total) ==
    [id |-> NextRowId(os), user_id |-> uid, total_amount |-> total,
     status |-> "Pending"]
NewOrder(os, uid, total) ==
    [id |-> NextRowId(os), user_id |-> uid, total_amount |-> total,
     status |-> "Processing"]

\* db.query(Cart).filter(Cart.user_id == user_id).delete()
\* (variant: the delete is missing)
ClearCartMut(c, uid) == c
ClearCart(c, uid) == {l \in c : l.user_id # uid}

\* What the failed request leaves committed: get_db closes the session, which
\* rolls the open transaction back.  (variant: the order insert was
\* committed on its own)
RolledBackMut(os, uid, total) == os \cup {NewOrder(os, uid, total)}
RolledBack(os, uid, total) == os

\* ---------------------------------------------------------------- state
NoSess == [user_id |-> NULL, product_id |-> NULL, quantity |-> 0,
           item |-> NULL, item_qty |-> 0, total |-> 0]

SeedPrice(p) == IF p = 1 THEN 20 ELSE 11

\* seed_database: the categories, and one product in each
SeedCatalog ==
    /\ categories = CategoryIds
    /\ productCategory = [p \in ProductIds |-> p]

\* models.create_tables / seed_database: one admin user, the seeded products
Init ==
    /\ users = [u \in {1} |-> TRUE]
    /\ SeedCatalog
    /\ products = [p \in ProductIds |-> SeedPrice(p)]
    /\ cart = {}
    /\ orders = {}
    /\ writeLock = NoLock
    /\ pc = [s \in Sessions |-> "idle"]
    /\ sess = [s \in Sessions |-> NoSess]
    /\ result = [s \in Sessions |-> "none"]
    /\ calls = 0

\* The request returns or raises: the session is closed.
Finish(s, r) ==
    /\ pc' = [pc EXCEPT ![s] = "idle"]
    /\ sess' = [sess EXCEPT ![s] = NoSess]
    /\ result' = [result EXCEPT ![s] = r]

Goto(s, label, locals) ==
    /\ pc' = [pc EXCEPT ![s] = label]
    /\ sess' = [sess EXCEPT ![s] = locals]
    /\ result' = [result EXCEPT ![s] = "none"]

\* ---------------------------------------------------------------- add_to_cart
\* POST /cart/add arrives; get_mock_user resolves the current user.
AddBegin(s, p, d) ==
    /\ pc[s] = "idle"
    /\ calls < MaxCalls
    /\ calls' = calls + 1
    /\ Goto(s, "add_product",
            [NoSess EXCEPT !.user_id = get_mock_user(users),
                           !.product_id = p, !.quantity = d])
    /\ UNCHANGED <<store, writeLock>>

\* product = db.query(Product)...first(); 404 if there is none
AddProduct(s) ==
    /\ pc[s] = "add_product"
    /\ IF ProductExists(products, sess[s].product_id)
       THEN Goto(s, "add_item", sess[s])
       ELSE Finish(s, "NotFound")
    /\ UNCHANGED <<store, writeLock, calls>>

\* cart_item = db.query(Cart)...first(), then the in-memory part of both
\* branches: quantity += on the loaded row, or the 400 for a new line
AddItem(s) ==
    /\ pc[s] = "add_item"
    /\ LET uid == sess[s].user_id
           p == sess[s].product_id
           d == sess[s].quantity
       IN  IF PairLines(cart, uid, p) # {}
           THEN Goto(s, "add_commit",
                     [sess[s] EXCEPT
                        !.item = FirstLine(cart, uid, p).id,
                        !.item_qty = NewQuantity(FirstLine(cart, uid, p).quantity, d)])
           ELSE IF RejectsNew(d)
                THEN Finish(s, "InvalidArgument")
                ELSE Goto(s, "add_commit", sess[s])
    /\ UNCHANGED <<store, writeLock, calls>>

\* db.commit() (and db.refresh) of add_to_cart: the flush sends the one
\* DELETE, UPDATE or INSERT of the session, then COMMIT.
\*   item     rowid of the loaded line, NULL when the line is new
\*   item_qty its in-memory quantity
\* An UPDATE that matches no row raises StaleDataError; an unchanged
\* quantity (d = 0) sends no UPDATE and the refresh of a vanished row raises;
\* a DELETE that matches no row only warns.
AddFlush(c, item, item_qty, d, uid, p) ==
    IF item # NULL
    THEN IF RemovesLine(item_qty)
         THEN [cart |-> {l \in c : l.id # item}, result |-> "Removed"]
         ELSE IF item \notin RowIds(c)
              THEN [cart |-> c, result |-> "StaleData"]
              ELSE IF d = 0
                   THEN [cart |-> c, result |-> "Line"]
                   ELSE [cart |-> {IF l.id = item
                                   THEN [l EXCEPT !.quantity = item_qty]
                                   ELSE l : l \in c},
                         result |-> "Line"]
    ELSE [cart |-> c \cup {NewCartItem(c, uid, p, d)}, result |-> "Line"]

AddCommit(s) ==
    /\ pc[s] = "add_commit"
    /\ writeLock = NoLock
    /\ LET r == AddFlush(cart, sess[s].item, sess[s].item_qty, sess[s].quantity,
                         sess[s].user_id, sess[s].product_id)
       IN  /\ cart' = r.cart
           /\ Finish(s, r.result)
    /\ UNCHANGED <<users, products, orders, writeLock, calls, catalog>>

\* add_to_cart run with no other request in between
add_to_cart(c, prods, uid, p, d) ==
    IF ~ProductExists(prods, p)
    THEN [cart |-> c, result |-> "NotFound"]
    ELSE IF PairLines(c, uid, p) # {}
         THEN AddFlush(c, FirstLine(c, uid, p).id,
                       NewQuantity(FirstLine(c, uid, p).quantity, d), d, uid, p)
         ELSE IF RejectsNew(d)
              THEN [cart |-> c, result |-> "InvalidArgument"]
              ELSE AddFlush(c, NULL, 0, d, uid, p)

\* ---------------------------------------------------------------- place_order
\* POST /orders/create arrives; get_mock_user resolves the current user.
PoBegin(s) ==
    /\ pc[s] = "idle"
    /\ calls < MaxCalls
    /\ calls' = calls + 1
    /\ Goto(s, "po_read", [NoSess EXCEPT !.user_id = get_mock_user(users)])
    /\ UNCHANGED <<store, writeLock>>

\* 1. fetch cart joined with products, 400 if empty; 2. total; 3. db.add
PoRead(s) ==
    /\ pc[s] = "po_read"
    /\ LET data == cart_data(cart, products, sess[s].user_id)
       IN  IF CartIsEmpty(data)
           THEN Finish(s, "EmptyCart")
           ELSE Goto(s, "po_delete",
                     [sess[s] EXCEPT !.total = total_amount(data, products)])
    /\ UNCHANGED <<store, writeLock, calls>>

\* 4. the bulk DELETE: the first DML of the session, it opens the write
\* transaction; the rows go at COMMIT.
PoDelete(s) ==
    /\ pc[s] = "po_delete"
    /\ writeLock = NoLock
    /\ writeLock' = s
    /\ Goto(s, "po_commit", sess[s])
    /\ UNCHANGED <<store, calls>>

\* 5. db.commit(): the flush INSERTs the order, COMMIT publishes both.
PoCommit(s) ==
    /\ pc[s] = "po_commit"
    /\ writeLock = s
    /\ orders' = orders \cup {NewOrder(orders, sess[s].user_id, sess[s].total)}
    /\ cart' = ClearCart(cart, sess[s].user_id)
    /\ writeLock' = NoLock
    /\ Finish(s, "Order")
    /\ UNCHANGED <<users, products, calls, catalog>>

\* The store fails in the DELETE, in the INSERT or in COMMIT: the exception
\* leaves place_order and get_db closes the session.
PoFail(s) ==
    /\ pc[s] \in {"po_delete", "po_commit"}
    /\ orders' = RolledBack(orders, sess[s].user_id, sess[s].total)
    /\ writeLock' = IF writeLock = s THEN NoLock ELSE writeLock
    /\ Finish(s, "StoreError")
    /\ UNCHANGED <<users, products, cart, calls, catalog>>

\* ---------------------------------------------------------------- admin, users
\* PUT /products/{id}: 404 for a missing product, else the price is replaced
\* (the request repeats the other fields, category_id among them).
update_product(p, price) ==
    /\ calls < MaxCalls
    /\ calls' = calls + 1
    /\ check_admin_permission(users, get_mock_user(users))
    /\ IF ProductExists(products, p)
       THEN /\ writeLock = NoLock
            /\ products' = [products EXCEPT ![p] = price]
       ELSE UNCHANGED products
    /\ UNCHANGED <<users, cart, orders, writeLock, pc, sess, result, catalog>>

\* DELETE /products/{id}: the flush of db.delete(product) sets product_id of
\* the product's cart rows to NULL (relationship without delete cascade),
\* then deletes the product row.
delete_product(p) ==
    /\ calls < MaxCalls
    /\ calls' = calls + 1
    /\ check_admin_permission(users, get_mock_user(users))
    /\ IF ProductExists(products, p)
       THEN /\ writeLock = NoLock
            /\ cart' = {IF l.product_id = p THEN [l EXCEPT !.product_id = NULL]
                        ELSE l : l \in cart}
            /\ products' = [q \in DOMAIN products \ {p} |-> products[q]]
            /\ productCategory' = [q \in DOMAIN products \ {p} |-> productCategory[q]]
       ELSE UNCHANGED <<cart, products, productCategory>>
    /\ UNCHANGED <<users, orders, writeLock, pc, sess, result, categories>>

\* category.products after db.delete(category): the relationship has no
\* delete cascade, so the flush sets category_id of each product of the
\* category to NULL.
OrphanProducts(pc_col, c) ==
    [q \in DOMAIN pc_col |-> IF pc_col[q] = c THEN NULL ELSE pc_col[q]]

\* DELETE /categories/{id}: 404 for a missing category; else the flush
\* detaches the category's products and deletes the category row, and the
\* commit succeeds (no foreign-key enforcement is configured on the engine).
delete_category(c) ==
    /\ calls < MaxCalls
    /\ calls' = calls + 1
    /\ check_admin_permission(users, get_mock_user(users))
    /\ IF c \in categories
       THEN /\ writeLock = NoLock
            /\ productCategory' = OrphanProducts(productCategory, c)
            /\ categories' = categories \ {c}
       ELSE UNCHANGED <<categories, productCategory>>
    /\ UNCHANGED <<users, products, cart, orders, writeLock, pc, sess, result>>

Next ==
    \/ \E s \in Sessions, p \in ProductIds, d \in Deltas : AddBegin(s, p, d)
    \/ \E s \in Sessions : AddProduct(s)
    \/ \E s \in Sessions : AddItem(s)
    \/ \E s \in Sessions : AddCommit(s)
    \/ \E s \in Sessions : PoBegin(s)
    \/ \E s \in Sessions : PoRead(s)
    \/ \E s \in Sessions : PoDelete(s)
    \/ \E s \in Sessions : PoCommit(s)
    \/ \E s \in Sessions : PoFail(s)
    \/ \E p \in ProductIds, price \in Prices : update_product(p, price)
    \/ \E p \in ProductIds : delete_product(p)
    \/ \E c \in CategoryIds : delete_category(c)

Spec == Init /\ [][Next]_vars

\* ---------------------------------------------------------------- scenarios
\* A cart holding q[p] of each product p (no row where q[p] = 0)
CartOf(uid, q) ==
    {[id |-> p, user_id |-> uid, product_id |-> p, quantity |-> q[p]] :
        p \in {x \in DOMAIN q : q[x] > 0}}

\* Two place_order requests of the one user have arrived while the cart is
\* populated; no other request runs and the store does not fail.
InitPO ==
    /\ users = [u \in {1} |-> TRUE]
    /\ SeedCatalog
    /\ products \in [ProductIds -> Prices]
    /\ \E q \in [ProductIds -> 0..MaxDelta] :
          /\ CartOf(1, q) # {}
          /\ cart = CartOf(1, q)
    /\ orders = {}
    /\ writeLock = NoLock
    /\ pc = [s \in Sessions |-> "po_read"]
    /\ sess = [s \in Sessions |-> [NoSess EXCEPT !.user_id = get_mock_user(users)]]
    /\ result = [s \in Sessions |-> "none"]
    /\ calls = Cardinality(Sessions)

NextPO ==
    \/ \E s \in Sessions : PoRead(s)
    \/ \E s \in Sessions : PoDelete(s)
    \/ \E s \in Sessions : PoCommit(s)

SpecPO == InitPO /\ [][NextPO]_vars

\* Every thread has an add_to_cart request with a positive quantity for the
\* same product p, whose line holds q0 (no line when q0 = 0); no other
\* request runs.
InitAdd ==
    /\ users = [u \in {1} |-> TRUE]
    /\ SeedCatalog
    /\ products = [p \in ProductIds |-> SeedPrice(p)]
    /\ orders = {}
    /\ writeLock = NoLock
    /\ pc = [s \in Sessions |-> "add_product"]
    /\ result = [s \in Sessions |-> "none"]
    /\ calls = Cardinality(Sessions)
    /\ \E p \in ProductIds, q0 \in 0..MaxDelta :
          /\ cart = CartOf(1, [x \in {p} |-> q0])
          /\ sess \in [Sessions -> {[NoSess EXCEPT !.user_id = get_mock_user(users),
                                                   !.product_id = p,
                                                   !.quantity = d] : d \in 1..MaxDelta}]

NextAdd ==
    \/ \E s \in Sessions : AddProduct(s)
    \/ \E s \in Sessions : AddItem(s)
    \/ \E s \in Sessions : AddCommit(s)

SpecAdd == InitAdd /\ [][NextAdd]_vars

\* The database file already exists when the application starts
\* (create_tables reuses it): the user's cart holds one line of quantity 1.
InitWarm ==
    /\ users = [u \in {1} |-> TRUE]
    /\ SeedCatalog
    /\ products = [p \in ProductIds |-> SeedPrice(p)]
    /\ \E p \in ProductIds : cart = CartOf(1, [x \in {p} |-> 1])
    /\ orders = {}
    /\ writeLock = NoLock
    /\ pc = [s \in Sessions |-> "idle"]
    /\ sess = [s \in Sessions |-> NoSess]
    /\ result = [s \in Sessions |-> "none"]
    /\ calls = 0

SpecWarm == InitWarm /\ [][Next]_vars

\* ---------------------------------------------------------------- claims
AllIdle == \A s \in Sessions : pc[s] = "idle"

CurrentUser == get_mock_user(users)

\* Total quantity the committed cart holds for one (user, product) pair
RECURSIVE SumQuantity(_)
SumQuantity(ls) ==
    IF ls = {} THEN 0
    ELSE LET l == CHOOSE x \in ls : TRUE IN l.quantity + SumQuantity(ls \ {l})

\* C1: when two concurrent place_order calls of one user on a populated cart
\* have both returned, exactly one order exists, the user's cart is empty,
\* and one call returned the order while the other failed with EmptyCart.
C1_OneOrderOneEmptyCart ==
    AllIdle =>
        /\ Cardinality(orders) = 1
        /\ UserLines(cart, CurrentUser) = {}
        /\ \E s \in Sessions :
              /\ result[s] = "Order"
              /\ \A t \in Sessions \ {s} : result[t] = "EmptyCart"

\* C2: every step of a place_order call either commits both effects (one new
\* order row and no cart line of the user left) when it returns the order, or
\* leaves the committed orders and cart as they were; a call that fails after
\* the order was added commits nothing.
C2_PlaceOrderAtomic ==
    [][\A s \in Sessions :
          (pc[s] \in {"po_read", "po_delete", "po_commit"} /\ pc'[s] # pc[s]) =>
             IF result'[s] = "Order"
             THEN /\ Cardinality(orders' \ orders) = 1
                  /\ orders \subseteq orders'
                  /\ UserLines(cart', sess[s].user_id) = {}
                  /\ cart' \subseteq cart
             ELSE orders' = orders /\ cart' = cart]_vars

C2_Witness ==
    \E s \in Sessions :
        /\ result[s] = "StoreError"
        /\ orders = {}
        /\ UserLines(cart, CurrentUser) # {}

\* C3: every add_to_cart call with a positive quantity that returns a line
\* leaves exactly one line for its (user, product) pair, holding the
\* committed quantity of the pair before it plus its own quantity, so that
\* k calls on a line of q end with q + d1 + ... + dk.
C3_NoLostIncrement ==
    [][\A s \in Sessions :
          (pc[s] = "add_commit" /\ pc'[s] # pc[s] /\ result'[s] = "Line") =>
             LET before == PairLines(cart, sess[s].user_id, sess[s].product_id)
                 after == PairLines(cart', sess[s].user_id, sess[s].product_id)
             IN  /\ Cardinality(after) = 1
                 /\ SumQuantity(after) = SumQuantity(before) + sess[s].quantity]_vars

\* C4: the committed cart never holds two lines for the same (user, product).
C4_OneLinePerPair ==
    \A l \in cart : \A m \in cart :
        (l.user_id = m.user_id /\ l.product_id = m.product_id
            /\ l.product_id # NULL) => l = m

\* Price of the product of a line as committed now (nothing for a line whose
\* product is gone)
LineAmount(l, prods) ==
    IF l.product_id \in DOMAIN prods THEN l.quantity * prods[l.product_id] ELSE 0

RECURSIVE SumAmount(_, _)
SumAmount(ls, prods) ==
    IF ls = {} THEN 0
    ELSE LET l == CHOOSE x \in ls : TRUE
         IN  LineAmount(l, prods) + SumAmount(ls \ {l}, prods)

\* C5: the order a place_order call commits has total_amount equal to the sum
\* of quantity * current price over the cart lines the call deletes.
C5_TotalOfConsumedLines ==
    [][\A s \in Sessions :
          (pc[s] = "po_commit" /\ result'[s] = "Order") =>
             \A o \in orders' \ orders :
                o.total_amount = SumAmount(cart \ cart', products)]_vars

\* C6: a place_order call that reads a cart with no line of the user fails
\* with EmptyCart, and orders and cart stay as they were.
C6_EmptyCartGuard ==
    [][\A s \in Sessions :
          (pc[s] = "po_read" /\ pc'[s] # pc[s]
              /\ UserLines(cart, sess[s].user_id) = {}) =>
             /\ result'[s] = "EmptyCart"
             /\ pc'[s] = "idle"
             /\ orders' = orders
             /\ cart' = cart]_vars

C6_Witness ==
    \E s \in Sessions :
        /\ result[s] = "EmptyCart"
        /\ UserLines(cart, CurrentUser) = {}
        /\ orders = {}

\* C7: an add_to_cart call whose product does not exist fails with NotFound
\* whatever its quantity, and the cart stays as it was.
C7_MissingProductGuard ==
    [][\A s \in Sessions :
          (pc[s] = "add_product" /\ pc'[s] # pc[s]
              /\ sess[s].product_id \notin DOMAIN products) =>
             /\ result'[s] = "NotFound"
             /\ pc'[s] = "idle"
             /\ cart' = cart]_vars

C7_Witness ==
    \E s \in Sessions : result[s] = "NotFound" /\ DOMAIN products # ProductIds

\* C8: an add_to_cart call for an existing product that finds no line for
\* (user, product) fails with InvalidArgument and creates no line when its
\* quantity is <= 0; otherwise it adds exactly one line, for that user and
\* product, with quantity = the requested quantity.
C8_NewLine ==
    [][\A s \in Sessions :
          /\ (pc[s] = "add_item" /\ pc'[s] # pc[s]
                /\ PairLines(cart, sess[s].user_id, sess[s].product_id) = {}) =>
                 IF sess[s].quantity <= 0
                 THEN result'[s] = "InvalidArgument" /\ pc'[s] = "idle" /\ cart' = cart
                 ELSE pc'[s] = "add_commit" /\ sess'[s].item = NULL /\ cart' = cart
          /\ (pc[s] = "add_commit" /\ pc'[s] # pc[s] /\ sess[s].item = NULL) =>
                 /\ result'[s] = "Line"
                 /\ cart \subseteq cart'
                 /\ \E l \in cart' \ cart :
                       /\ cart' \ cart = {l}
                       /\ l.user_id = sess[s].user_id
                       /\ l.product_id = sess[s].product_id
                       /\ l.quantity = sess[s].quantity]_vars

C8_Witness ==
    \E s \in Sessions, t \in Sessions :
        /\ result[s] = "InvalidArgument"
        /\ result[t] = "Line"
        /\ \E l \in cart : l.quantity = MaxDelta

\* C9 as claimed: from every reachable state, add_to_cart(u, p, +n) directly
\* followed by add_to_cart(u, p, -n) returns Removed and leaves no line for
\* (u, p).
C9_IncDecRemoves_AnyState ==
    \A p \in DOMAIN products : \A n \in 1..MaxDelta :
        LET r1 == add_to_cart(cart, products, CurrentUser, p, n)
            r2 == add_to_cart(r1.cart, products, CurrentUser, p, -n)
        IN  /\ r2.result = "Removed"
            /\ PairLines(r2.cart, CurrentUser, p) = {}

\* C9 amended: from every reachable state in which (u, p) has no line,
\* add_to_cart(u, p, +n) creates the line and the directly following
\* add_to_cart(u, p, -n) returns Removed and leaves no line for (u, p).
C9_IncDecRemoves_NoLine ==
    \A p \in DOMAIN products : \A n \in 1..MaxDelta :
        PairLines(cart, CurrentUser, p) = {} =>
            LET r1 == add_to_cart(cart, products, CurrentUser, p, n)
                r2 == add_to_cart(r1.cart, products, CurrentUser, p, -n)
            IN  /\ r1.result = "Line"
                /\ Cardinality(PairLines(r1.cart, CurrentUser, p)) = 1
                /\ r2.result = "Removed"
                /\ PairLines(r2.cart, CurrentUser, p) = {}
                /\ r2.cart = cart

C9_Witness ==
    \E s \in Sessions : \E p \in DOMAIN products :
        /\ result[s] = "Removed"
        /\ PairLines(cart, CurrentUser, p) = {}
        /\ add_to_cart(add_to_cart(cart, products, CurrentUser, p, 1).cart,
                       products, CurrentUser, p, -1).result = "Removed"

\* C10: every committed cart line has quantity >= 1; add_to_cart on an
\* existing line computes old + delta, and when that is <= 0 it deletes the
\* line and returns Removed, else a written quantity is that sum.
C10_QuantityPositive ==
    /\ [](\A l \in cart : l.quantity >= 1)
    /\ [][\A s \in Sessions :
            /\ (pc[s] = "add_item" /\ pc'[s] = "add_commit"
                  /\ sess'[s].item # NULL) =>
                   \E l \in PairLines(cart, sess[s].user_id, sess[s].product_id) :
                      /\ sess'[s].item = l.id
                      /\ sess'[s].item_qty = l.quantity + sess[s].quantity
            /\ (pc[s] = "add_commit" /\ pc'[s] # pc[s] /\ sess[s].item # NULL) =>
                   IF sess[s].item_qty <= 0
                   THEN /\ result'[s] = "Removed"
                        /\ sess[s].item \notin RowIds(cart')
                        /\ cart' \subseteq cart
                   ELSE /\ result'[s] \in {"Line", "StaleData"}
                        /\ RowIds(cart') = RowIds(cart)
                        /\ (result'[s] = "Line" /\ sess[s].quantity # 0) =>
                              \E l \in cart' : l.id = sess[s].item
                                               /\ l.quantity = sess[s].item_qty]_vars

C10_Witness ==
    \E s \in Sessions :
        /\ result[s] = "Removed"
        /\ cart = {}
        /\ calls >= 2

\* Cart lines of other users or of other products than p (a line whose
\* product was deleted, product_id NULL, is not counted as another product's)
OtherLines(c, uid, p) ==
    {l \in c : l.user_id # uid \/ l.product_id \notin {p, NULL}}

\* Ids of the rows that differ between two states of a table
ChangedIds(c1, c2) == {l.id : l \in (c1 \ c2) \cup (c2 \ c1)}

\* C11: an add_to_cart call that succeeds writes one cart row (an insert adds
\* exactly one; an update or delete reaches at most the one row), a call that
\* fails writes none, and no step of the call touches another row: the lines
\* of other products and other users and all orders, products and users stay
\* as they were.
C11_OneRowFrame ==
    [][\A s \in Sessions :
          (pc[s] \in {"add_product", "add_item", "add_commit"} /\ pc'[s] # pc[s]) =>
             /\ users' = users /\ products' = products /\ orders' = orders
             /\ OtherLines(cart', sess[s].user_id, sess[s].product_id)
                   = OtherLines(cart, sess[s].user_id, sess[s].product_id)
             /\ IF result'[s] \in {"Line", "Removed"}
                THEN /\ Cardinality(ChangedIds(cart, cart')) <= 1
                     /\ (sess[s].item = NULL) =>
                           (cart \subseteq cart' /\ Cardinality(cart' \ cart) = 1)
                ELSE cart' = cart]_vars

\* C12: an order row appears with status "Processing" in the step that
\* creates it, and no later step of any operation changes or removes an
\* existing order row (id, user reference, total_amount, status).
C12_OrderImmutable ==
    [][/\ \A o \in orders' \ orders :
             /\ o.status = "Processing"
             /\ o.id \notin RowIds(orders)
       /\ \A o \in orders : o \in orders']_vars

\* an order exists and a cart line was written after it (its creation had
\* emptied the cart)
C12_Witness ==
    /\ \E o \in orders : o.status = "Processing" /\ o.total_amount > 0
    /\ cart # {}

\* C13: a step that deletes a category which products reference is either
\* refused (the category stays) or takes those products with it; a category
\* never disappears while a product that referenced it stays, with its
\* category_id set to NULL or left pointing at the deleted category.
C13_CategoryDeleteGuarded ==
    [][\A c \in categories \ categories' :
          \A p \in DOMAIN products :
             productCategory[p] = c => p \notin DOMAIN products']_vars

====
